---- MODULE Spec2Model ----
(***************************************************************************)
(* The logging-context stack of jmullan_logging/helpers.py: LogState, the  *)
(* thread-local get_log_state, the logging_context scope and the           *)
(* logging_context_from_args decorator.                                    *)
(***************************************************************************)
EXTENDS Integers, Sequences, FiniteSets, TLC

\* ------------------------------------------------------------------ bounds

\* Deepest nesting of logging_context scopes one execution path explores,
\* and the most frames pushed directly on a LogState.
MaxDepth == 2

\* Most positional arguments passed in a call of a decorated function.
MaxArgs == 3

\* ------------------------------------------------------------ input values

\* Execution paths.  Under Spec each runs on a thread of its own.
Paths == {"A", "B"}
Threads == {"main", "worker"}

\* Field names and the values each path passes to logging_context(**kwargs).
Keys == {"foo", "baz"}
ValsOf(p) == IF p = "A" THEN {"aaa", "bbb"} ELSE {"ccc"}

\* Every dict with keys among ks and values among vs.
DictsOver(ks, vs) == UNION {[d -> vs] : d \in SUBSET ks}

KwargsOf(p) == DictsOver(Keys, ValsOf(p))

\* The empty dict {}.
EmptyDict == [k \in {} |-> ""]

\* Python values that are not field dicts.
PyNone == [type |-> "NoneType"]
PyDict(d) == [type |-> "dict", items |-> d]

Last(s) == s[Len(s)]

VARIABLES
    log_state,  \* _THREAD_DATA.log_state, one slot per thread
    thread_of,  \* the thread each execution path runs on
    scopes,     \* per path: its active logging_context scopes, outermost first
    exc,        \* per path: the exception now propagating out of its scopes
    held,       \* index of the stack frame the caller holds a reference to
    result,     \* the last direct LogState call and what it returned
    decorated,  \* per function name: what the name is bound to
    warned,     \* <<function, argument name>> pairs logger.warning was given
    inputs,     \* the arguments of the formatters.py function under call
    output      \* the function of formatters.py last called and what it gave

vars == <<log_state, thread_of, scopes, exc, held, result, decorated, warned,
          inputs, output>>

\* ------------------------------------------------------------- LogState

\* A bug: a key the parent frame already holds keeps the parent's value.
CopyUpdateOuterWins(frame, kwargs) ==
    [k \in DOMAIN frame \cup DOMAIN kwargs |->
        IF k \in DOMAIN frame THEN frame[k] ELSE kwargs[k]]

\* dict.copy() followed by dict.update(**kwargs).
CopyUpdate(frame, kwargs) ==
    [k \in DOMAIN frame \cup DOMAIN kwargs |->
        IF k \in DOMAIN kwargs THEN kwargs[k] ELSE frame[k]]

\* LogState.__init__: the stack starts as [{}].
NewLogState == [exists |-> TRUE, stack |-> <<EmptyDict>>]

\* A thread that never called get_log_state has no log_state attribute.
NoLogState == [exists |-> FALSE, stack |-> <<>>]

\* LogState.top, the stack it leaves: the base frame of an empty stack is
\* re-created.
TopStack(stack) == IF stack = <<>> THEN <<EmptyDict>> ELSE stack

\* A bug: top returns self.stack[0].
BottomRef(stack) == 1

\* LogState.top, the frame it returns: self.stack[-1] itself, given here as
\* its index in the stack top() leaves.
TopRef(stack) == Len(TopStack(stack))

TopFrame(stack) == TopStack(stack)[TopRef(stack)]

\* LogState.push: a copy of the top frame updated with kwargs is appended.
PushStack(stack, kwargs) ==
    Append(TopStack(stack), CopyUpdate(TopFrame(stack), kwargs))

\* A bug: pop drops every frame above the base frame.
PopStackToBase(stack) ==
    IF stack # <<>> THEN SubSeq(stack, 1, 1) ELSE stack

\* LogState.pop: the stack after the call.
PopStack(stack) ==
    IF stack # <<>> THEN SubSeq(stack, 1, Len(stack) - 1) ELSE stack

\* The outcome of a call: a returned value or a raised exception.
Returned(v) == [raised |-> "none", value |-> v]
Raised(e) == [raised |-> e, value |-> PyNone]

\* A bug: list.pop without the `if self.stack` guard.
ListPop(stack) ==
    IF stack # <<>> THEN Returned(PyDict(Last(stack)))
    ELSE Raised("IndexError")

\* LogState.pop: its outcome.
PopResult(stack) ==
    IF stack # <<>> THEN Returned(PyDict(Last(stack)))
    ELSE Returned(PyDict(EmptyDict))

\* A bug: a module global in place of threading.local().
SharedSlot(t) == "main"

\* The slot of threading.local() a thread reads and writes.
LocalSlot(t) == t

\* get_log_state: the LogState of thread t, created on first use.
GetLogState(ls, t) ==
    IF ls[LocalSlot(t)].exists THEN ls[LocalSlot(t)] ELSE NewLogState

\* What current_logging_context() returns to path p in this state.
CurrentContext(p) == TopFrame(GetLogState(log_state, thread_of[p]).stack)

\* The value the bare `yield` of logging_context hands to `with ... as`.
YieldValue(frame) == PyNone

\* ------------------------------------------- logging_context_from_args

\* The decorated functions and the names each decorator call asks for:
\*   @logging_context_from_args("fire", "water", "air")
\*   def element(fire, water="wet")
\*   @logging_context_from_args("bar", "baz", "qux", "boop")
\*   def foo(bar, baz=None, *args, qux=None, **kwargs)
\*   @logging_context_from_args("foo")
\*   def error(argument_does_not_match)
Functions == {"element", "foo", "error"}

Param(name, kind, has_default, default) ==
    [name |-> name, kind |-> kind, has_default |-> has_default,
     default |-> default]

\* inspect.signature(f).parameters, in order.
SignatureOf(fn) ==
    CASE fn = "element" ->
            << Param("fire", "positional_or_keyword", FALSE, ""),
               Param("water", "positional_or_keyword", TRUE, "wet") >>
      [] fn = "foo" ->
            << Param("bar", "positional_or_keyword", FALSE, ""),
               Param("baz", "positional_or_keyword", TRUE, "None"),
               Param("args", "var_positional", FALSE, ""),
               Param("qux", "keyword_only", TRUE, "None"),
               Param("kwargs", "var_keyword", FALSE, "") >>
      [] fn = "error" ->
            << Param("argument_does_not_match", "positional_or_keyword",
                     FALSE, "") >>

ArgNamesOf(fn) ==
    CASE fn = "element" -> <<"fire", "water", "air">>
      [] fn = "foo" -> <<"bar", "baz", "qux", "boop">>
      [] fn = "error" -> <<"foo">>

\* The keyword names the calls of fn are drawn from.
KeywordsOf(fn) ==
    CASE fn = "element" -> {"fire", "water", "air"}
      [] fn = "foo" -> {"bar", "qux", "boop"}
      [] fn = "error" -> {"foo", "argument_does_not_match"}

\* The value passed at each position, and the value passed by keyword.
PositionalValues == <<"p1", "p2", "p3", "p4", "p5", "p6">>
KeywordValue == "kw"

CallsOf(fn) ==
    {[args |-> SubSeq(PositionalValues, 1, n), kwargs |-> kw] :
        n \in 0..MaxArgs, kw \in DictsOver(KeywordsOf(fn), {KeywordValue})}

Range(s) == {s[i] : i \in 1..Len(s)}

HasKind(sig, kind) == \E i \in 1..Len(sig) : sig[i].kind = kind

\* The parameters a value can be passed to by name.
Named(sig) ==
    {i \in 1..Len(sig) :
        sig[i].kind \in {"positional_or_keyword", "keyword_only"}}

\* signature.bind(*args, **kwargs): ok is FALSE where bind raises TypeError
\* (too many positional arguments, multiple values for an argument, a missing
\* required argument, an unexpected keyword argument).  arguments holds the
\* parameters bound to one value, varargs and extra what *args and **kwargs
\* received; parameters left to their default are not in arguments.
Bind(sig, args, kwargs) ==
    LET np == Cardinality({i \in 1..Len(sig) :
                              sig[i].kind = "positional_or_keyword"})
        n == Len(args)
        bypos == 1..(IF n < np THEN n ELSE np)
        bykw == {i \in Named(sig) \ bypos : sig[i].name \in DOMAIN kwargs}
        missing == {i \in Named(sig) \ (bypos \cup bykw) : ~sig[i].has_default}
        multiple == {i \in bypos : sig[i].name \in DOMAIN kwargs}
        extra == DOMAIN kwargs \ {sig[i].name : i \in Named(sig)}
        index(name) == CHOOSE i \in bypos \cup bykw : sig[i].name = name
    IN  [ok |-> /\ (n <= np \/ HasKind(sig, "var_positional"))
                /\ missing = {}
                /\ multiple = {}
                /\ (extra = {} \/ HasKind(sig, "var_keyword")),
         arguments |->
            [name \in {sig[i].name : i \in bypos \cup bykw} |->
                IF index(name) \in bypos THEN args[index(name)]
                ELSE kwargs[name]],
         varargs |-> SubSeq(args, np + 1, n),
         extra |-> [name \in extra |-> kwargs[name]]]

\* BoundArguments.kwargs: the parameters from the first one that has to be
\* passed by keyword on, and what **kwargs received.
BoundKwargs(sig, bound) ==
    LET in_arguments(j) ==
            CASE sig[j].kind = "var_positional" -> bound.varargs # <<>>
              [] sig[j].kind = "var_keyword" -> DOMAIN bound.extra # {}
              [] OTHER -> sig[j].name \in DOMAIN bound.arguments
        started(i) ==
            \E j \in 1..i :
                \/ sig[j].kind \in {"var_keyword", "keyword_only"}
                \/ ~in_arguments(j)
        names == {sig[i].name : i \in {j \in Named(sig) :
                      started(j) /\ sig[j].name \in DOMAIN bound.arguments}}
    IN  [name \in names \cup DOMAIN bound.extra |->
            IF name \in DOMAIN bound.extra THEN bound.extra[name]
            ELSE bound.arguments[name]]

\* A bug: bound.arguments.get(arg_name) for every name asked for.
LogValuesAll(arg_names, sig, bound) ==
    [name \in Range(arg_names) |->
        IF name \in DOMAIN bound.arguments THEN bound.arguments[name]
        ELSE "None"]

\* _log_values_from_bound_arguments.
LogValues(arg_names, sig, bound) ==
    LET kw == BoundKwargs(sig, bound)
    IN  [name \in {a \in Range(arg_names) :
                      a \in DOMAIN bound.arguments \/ a \in DOMAIN kw} |->
            IF name \in DOMAIN bound.arguments THEN bound.arguments[name]
            ELSE kw[name]]

\* A bug: where bind raises, the keywords asked for are captured anyway.
WrapperContextKeywords(fn, args, kwargs) ==
    LET bound == Bind(SignatureOf(fn), args, kwargs)
    IN  IF bound.ok THEN LogValues(ArgNamesOf(fn), SignatureOf(fn), bound)
        ELSE [name \in DOMAIN kwargs \cap Range(ArgNamesOf(fn)) |-> kwargs[name]]

\* _wrapper, lines 96-103: the context of a call; {} where bind raises.
WrapperContext(fn, args, kwargs) ==
    LET bound == Bind(SignatureOf(fn), args, kwargs)
    IN  IF bound.ok THEN LogValues(ArgNamesOf(fn), SignatureOf(fn), bound)
        ELSE EmptyDict

\* _wrapper, line 107: the arguments f is called with.
Forwarded(args, kwargs) == [args |-> args, kwargs |-> kwargs]

\* Python raises TypeError in the call f(*args, **kwargs) exactly where the
\* arguments do not bind to the parameters of f.
CallRaisesTypeError(fn, fwd) ==
    ~Bind(SignatureOf(fn), fwd.args, fwd.kwargs).ok

\* _check_signature_has_args: the names it warns about.
Warnings(fn) ==
    IF HasKind(SignatureOf(fn), "var_keyword") THEN {}
    ELSE {<<fn, a>> : a \in {a \in Range(ArgNamesOf(fn)) :
             a \notin {SignatureOf(fn)[i].name : i \in 1..Len(SignatureOf(fn))}}}

\* What a name is bound to before its def statement ran, the function object
\* itself, and the _wrapper that _decorate returns.
Undefined == [kind |-> "undefined", name |-> "", arg_names |-> <<>>]
Original(fn) == [kind |-> "function", name |-> fn, arg_names |-> <<>>]
Wrapper(fn) == [kind |-> "wrapper", name |-> fn, arg_names |-> ArgNamesOf(fn)]

\* _decorate: its return value.
DecorateResult(fn) == Wrapper(fn)

\* The qualified name _decorate puts in the context while it checks.
QualName(fn) == [function |-> fn]

\* ------------------------------------------------------------- actions

\* The innermost scope of p belongs to a call whose f raises TypeError as
\* soon as it is called: nothing of its body runs.
Blocked(p) ==
    /\ scopes[p] # <<>>
    /\ Last(scopes[p]).fn # ""
    /\ CallRaisesTypeError(Last(scopes[p]).fn, Last(scopes[p]).forwarded)

InCall(p) == \E i \in 1..Len(scopes[p]) : scopes[p][i].fn # ""

\* logging_context up to its yield: get_log_state(), push(**kwargs).  The
\* scope keeps the LogState it got, for the pop of its finally clause.
PushScope(p, kwargs, fn, call) ==
    LET t == thread_of[p]
        st == GetLogState(log_state, t)
        pushed == PushStack(st.stack, kwargs)
    IN  /\ log_state' = [log_state EXCEPT
                ![LocalSlot(t)] = [exists |-> TRUE, stack |-> pushed]]
        /\ scopes' = [scopes EXCEPT ![p] = Append(@,
                [kwargs |-> kwargs,
                 before |-> TopFrame(st.stack),
                 depth  |-> Len(TopStack(st.stack)),
                 target |-> YieldValue(Last(pushed)),
                 state  |-> LocalSlot(t),
                 fn     |-> fn,
                 call   |-> call,
                 forwarded |-> Forwarded(call.args, call.kwargs)])]

NoCall == [args |-> <<>>, kwargs |-> EmptyDict]

\* `with logging_context(**kwargs):` is entered.
Enter(p, kwargs) ==
    /\ exc[p] = "none"
    /\ Len(scopes[p]) < MaxDepth
    /\ ~Blocked(p)
    /\ PushScope(p, kwargs, "", NoCall)
    /\ UNCHANGED <<inputs, output, thread_of, exc, held, result, decorated, warned>>

\* The `finally: log_state.pop()` of the innermost scope of p.
Leave(p) ==
    /\ log_state' = [log_state EXCEPT
            ![Last(scopes[p]).state].stack = PopStack(@)]
    /\ scopes' = [scopes EXCEPT ![p] = SubSeq(@, 1, Len(@) - 1)]

\* The body of the innermost scope (a with block, or the call of f in
\* _wrapper) returns normally.
ExitReturn(p) ==
    /\ exc[p] = "none"
    /\ scopes[p] # <<>>
    /\ ~Blocked(p)
    /\ Leave(p)
    /\ UNCHANGED <<inputs, output, thread_of, exc, held, result, decorated, warned>>

\* The body of the innermost scope raises, or an exception raised further in
\* passes through it: the finally clause runs and the exception goes on.
ExitRaise(p) ==
    /\ scopes[p] # <<>>
    /\ Leave(p)
    /\ exc' = [exc EXCEPT ![p] =
            IF Blocked(p) THEN "TypeError"
            ELSE IF @ = "none" THEN "Error" ELSE @]
    /\ UNCHANGED <<inputs, output, thread_of, held, result, decorated, warned>>

\* The caller catches the exception.
Catch(p) ==
    /\ exc[p] # "none"
    /\ exc' = [exc EXCEPT ![p] = "none"]
    /\ UNCHANGED <<inputs, output, log_state, thread_of, scopes, held, result, decorated, warned>>

\* current_logging_context(): get_log_state() creates the thread's LogState
\* when absent, top() re-creates the base frame of an empty stack.
Read(p) ==
    /\ LET t == thread_of[p]
           st == GetLogState(log_state, t)
       IN  log_state' = [log_state EXCEPT
               ![LocalSlot(t)] = [exists |-> TRUE, stack |-> TopStack(st.stack)]]
    /\ log_state' # log_state
    /\ UNCHANGED <<inputs, output, thread_of, scopes, exc, held, result, decorated, warned>>

\* A def statement under @logging_context_from_args(...) runs at the top
\* level of p: _decorate checks the signature inside a scope of its own and
\* the name is bound to what _decorate returns.
Decorate(p, fn) ==
    /\ exc[p] = "none"
    /\ scopes[p] = <<>>
    /\ decorated[fn] = Undefined
    /\ LET t == thread_of[p]
           st == GetLogState(log_state, t)
       IN  log_state' = [log_state EXCEPT
               ![LocalSlot(t)] = [exists |-> TRUE,
                   stack |-> PopStack(PushStack(st.stack, QualName(fn)))]]
    /\ warned' = warned \cup Warnings(fn)
    /\ decorated' = [decorated EXCEPT ![fn] = DecorateResult(fn)]
    /\ UNCHANGED <<inputs, output, thread_of, scopes, exc, held, result>>

\* A decorated function is called: _wrapper binds the arguments, enters
\* logging_context(**context) and calls f.
Call(p, fn, call) ==
    /\ exc[p] = "none"
    /\ Len(scopes[p]) < MaxDepth
    /\ ~InCall(p)
    /\ decorated[fn].kind = "wrapper"
    /\ PushScope(p, WrapperContext(fn, call.args, call.kwargs), fn, call)
    /\ UNCHANGED <<inputs, output, thread_of, exc, held, result, decorated, warned>>

\* ------------------------------------- direct calls of the LogState API

RawKeys == {"foo"}

Outcome(op, outcome, key, value, before) ==
    [op |-> op, outcome |-> outcome, key |-> key, value |-> value,
     before |-> before]

NoOutcome == Outcome("none", Returned(PyNone), "", "", 0)

SetStack(p, stack) ==
    log_state' = [log_state EXCEPT
        ![LocalSlot(thread_of[p])] = [exists |-> TRUE, stack |-> stack]]

\* get_log_state().push(**kwargs)
RawPush(p, kwargs) ==
    LET st == GetLogState(log_state, thread_of[p])
    IN  /\ Len(st.stack) <= MaxDepth
        /\ SetStack(p, PushStack(st.stack, kwargs))
        /\ result' = Outcome("push", Returned(PyNone), "", "", Len(st.stack))
        /\ UNCHANGED <<inputs, output, thread_of, scopes, exc, held, decorated, warned>>

\* get_log_state().pop().  A reference the caller holds to the popped frame
\* no longer refers to a frame of the stack.
RawPop(p) ==
    LET st == GetLogState(log_state, thread_of[p])
    IN  /\ SetStack(p, PopStack(st.stack))
        /\ result' = Outcome("pop", PopResult(st.stack), "", "", Len(st.stack))
        /\ held' = IF held <= Len(PopStack(st.stack)) THEN held ELSE 0
        /\ UNCHANGED <<inputs, output, thread_of, scopes, exc, decorated, warned>>

\* d = current_logging_context(): the caller now holds the frame returned.
RawTop(p) ==
    LET st == GetLogState(log_state, thread_of[p])
    IN  /\ SetStack(p, TopStack(st.stack))
        /\ result' = Outcome("top", Returned(PyNone), "", "", Len(st.stack))
        /\ held' = TopRef(st.stack)
        /\ UNCHANGED <<inputs, output, thread_of, scopes, exc, decorated, warned>>

\* d[key] = value on the mapping current_logging_context() returned.
SetItem(p, key, value) ==
    LET st == log_state[LocalSlot(thread_of[p])]
    IN  /\ held # 0
        /\ SetStack(p, [st.stack EXCEPT
                ![held] = CopyUpdate(@, [k \in {key} |-> value])])
        /\ result' = Outcome("setitem", Returned(PyNone), key, value, Len(st.stack))
        /\ UNCHANGED <<inputs, output, thread_of, scopes, exc, held, decorated, warned>>

\* del d[key] on the mapping current_logging_context() returned.
DelItem(p, key) ==
    LET st == log_state[LocalSlot(thread_of[p])]
    IN  /\ held # 0
        /\ key \in DOMAIN st.stack[held]
        /\ SetStack(p, [st.stack EXCEPT
                ![held] = [k \in DOMAIN @ \ {key} |-> @[k]]])
        /\ result' = Outcome("delitem", Returned(PyNone), key, "", Len(st.stack))
        /\ UNCHANGED <<inputs, output, thread_of, scopes, exc, held, decorated, warned>>

\* ------------------------------------------------------- specifications

InitCommon ==
    /\ log_state = [t \in Threads |-> NoLogState]
    /\ scopes = [p \in Paths |-> <<>>]
    /\ exc = [p \in Paths |-> "none"]
    /\ held = 0
    /\ result = NoOutcome
    /\ decorated = [fn \in Functions |-> Undefined]
    /\ warned = {}

\* No function of formatters.py is under call.
NotCalled == [op |-> "", value |-> <<>>, object |-> ""]

NoFormatting ==
    /\ inputs = <<>>
    /\ output = NotCalled

\* Two threads, one execution path on each.
Init ==
    /\ InitCommon
    /\ NoFormatting
    /\ thread_of = [p \in Paths |-> IF p = "A" THEN "main" ELSE "worker"]

ScopeStep(p) ==
    \/ \E kwargs \in KwargsOf(p) : Enter(p, kwargs)
    \/ ExitReturn(p)
    \/ ExitRaise(p)
    \/ Catch(p)
    \/ Read(p)

Next == \E p \in Paths : ScopeStep(p)

\* Scopes entered, left and read on two threads.
Spec == Init /\ [][Next]_vars

\* Every execution path is a task of the event loop of one thread.
InitTasks ==
    /\ InitCommon
    /\ NoFormatting
    /\ thread_of = [p \in Paths |-> "main"]

\* The fields a task passes to logging_context.
TaskKwargsOf(p) == DictsOver({"foo"}, ValsOf(p))

NextTasks ==
    \E p \in Paths :
        \/ \E kwargs \in TaskKwargsOf(p) : Enter(p, kwargs)
        \/ ExitReturn(p)
        \/ ExitRaise(p)
        \/ Catch(p)
        \/ Read(p)

\* Scopes entered, left and read by two tasks of one thread, which
\* interleave at their suspension points.
SpecTasks == InitTasks /\ [][NextTasks]_vars

\* The path that uses the LogState API directly, and the one that defines
\* and calls the decorated functions.
RawUser == "A"
Caller == "B"

NextRaw ==
    \/ \E kwargs \in DictsOver(RawKeys, ValsOf(RawUser)) : RawPush(RawUser, kwargs)
    \/ RawPop(RawUser)
    \/ RawTop(RawUser)
    \/ \E key \in RawKeys, value \in ValsOf(RawUser) : SetItem(RawUser, key, value)
    \/ \E key \in RawKeys : DelItem(RawUser, key)

\* push, pop and current_logging_context called directly on one thread, the
\* returned mapping being modified in place.
SpecRaw == Init /\ [][NextRaw]_vars

NextCalls ==
    \/ ScopeStep(Caller)
    \/ \E fn \in Functions : Decorate(Caller, fn)
    \/ \E fn \in Functions : \E call \in CallsOf(fn) : Call(Caller, fn, call)

\* Decorated functions defined and called on one thread, inside and around
\* logging_context scopes.
SpecCalls == Init /\ [][NextCalls]_vars

\* ----------------------------------------- field values (formatters.py)

\* A str used as a key is written as the sequence of its letters, "a.b" as
\* <<"a", ".", "b">>.  The words "@timestamp", "message", "log", "level",
\* "error", "type", "stack_trace" and "extra", and the names of the attributes
\* of a LogRecord, are written as one letter each.
Dot == "."

\* The values of the fields: scalars, written by their Python literal,
\* lists, and dicts, which keep their items in insertion order.
PyScalar(literal) == [type |-> "scalar", literal |-> literal, val |-> <<>>]
PyList(elements) == [type |-> "list", literal |-> "", val |-> elements]
Mapping(items) == [type |-> "dict", literal |-> "", val |-> items]
Item(key, value) == [key |-> key, value |-> value]

None == PyScalar("None")

\* The marker of a missing value.
_EMPTY == [type |-> "_EmptyMarker", literal |-> "", val |-> <<>>]

IsDict(x) == x.type = "dict"
IsEmptyMarker(x) == x.type = "_EmptyMarker"
IsList(x) == x.type = "list"

\* bool(x): None, False, 0, the empty str and empty containers are false.
Falsy == {"None", "False", "0", "''"}
Truthy(x) ==
    IF x.type = "scalar" THEN x.literal \notin Falsy
    ELSE IF x.type = "_EmptyMarker" THEN TRUE
    ELSE x.val # <<>>

\* The position of key among the items, 0 when it is not a key of them.
KeyIndex(items, key) ==
    LET hits == {n \in 1..Len(items) : items[n].key = key}
    IN  IF hits = {} THEN 0 ELSE CHOOSE n \in hits : TRUE

\* d.get(key, default)
DictGet(d, key, default) ==
    LET n == KeyIndex(d.val, key)
    IN  IF n = 0 THEN default ELSE d.val[n].value

\* d[key] = value: a key d holds keeps its place, a new key goes last.
DictSet(d, key, value) ==
    LET n == KeyIndex(d.val, key)
    IN  IF n = 0 THEN Mapping(Append(d.val, Item(key, value)))
        ELSE Mapping([d.val EXCEPT ![n] = Item(key, value)])

\* list(d.keys())
DictKeys(d) == [n \in 1..Len(d.val) |-> d.val[n].key]

\* d.update(other), for the first n items of other.
RECURSIVE UpdateItems(_, _, _)
UpdateItems(d, items, n) ==
    IF n = 0 THEN d
    ELSE DictSet(UpdateItems(d, items, n - 1), items[n].key, items[n].value)

DictUpdate(d, other) == UpdateItems(d, other.val, Len(other.val))

\* A bug: no value counts as the empty dict, so nothing is pruned.
NeverEmptyDict(y) == TRUE

\* `y != {}`
NotEmptyDict(y) == ~(IsDict(y) /\ y.val = <<>>)

\* ----------------------------------------------- union_keys, merge_values

\* A bug: the keys held with an empty dict are kept.
KeyholderAll(d) == Mapping([n \in 1..Len(d.val) |-> Item(d.val[n].key, None)])

\* {x: None for x, y in d.items() if y != {}}
Keyholder(d) ==
    LET kept == SelectSeq(d.val, LAMBDA item : NotEmptyDict(item.value))
    IN  Mapping([n \in 1..Len(kept) |-> Item(kept[n].key, None)])

union_keys(dx, dy) == DictKeys(DictUpdate(Keyholder(dx), Keyholder(dy)))

\* A bug: the second argument is returned whenever it is present.
OrInto(from_, into) == into

\* `from_ or into`
Or(from_, into) == IF Truthy(from_) THEN from_ ELSE into

\* f.copy(): a new dict of the same items.
Copy(f) == Mapping(f.val)

RECURSIVE merge_values(_, _)

\* The `for key in union_keys(i, f)` loop, after its first n keys.
RECURSIVE MergeLoop(_, _, _, _)
MergeLoop(f, i, keys, n) ==
    IF n = 0 THEN Mapping(<<>>)
    ELSE LET out == MergeLoop(f, i, keys, n - 1)
             key == keys[n]
             value == merge_values(DictGet(f, key, _EMPTY),
                                   DictGet(i, key, _EMPTY))
         IN  IF NotEmptyDict(value) THEN DictSet(out, key, value)
             ELSE out

merge_values(from_, into) ==
    IF IsDict(from_) /\ IsDict(into)
    THEN LET keys == union_keys(into, from_)
         IN  MergeLoop(from_, into, keys, Len(keys))
    ELSE IF IsDict(from_) THEN Copy(from_)
    ELSE IF IsDict(into) THEN Copy(into)
    ELSE IF IsEmptyMarker(from_) /\ IsEmptyMarker(into) THEN None
    ELSE IF IsEmptyMarker(from_) THEN into
    ELSE IF IsEmptyMarker(into) THEN from_
    ELSE Or(from_, into)

\* A bug: the dict itself is returned, not a copy of it.
SameObject(from_, into) ==
    IF IsDict(from_) /\ IsDict(into) THEN "output"
    ELSE IF IsDict(from_) THEN "from_"
    ELSE IF IsDict(into) THEN "into"
    ELSE IF IsEmptyMarker(from_) /\ IsEmptyMarker(into) THEN "None"
    ELSE IF IsEmptyMarker(from_) THEN "into"
    ELSE IF IsEmptyMarker(into) THEN "from_"
    ELSE IF Truthy(from_) THEN "from_" ELSE "into"

\* The object merge_values returns: one of its two arguments, the None
\* singleton, the dict `output` it built or the copy it made.
ReturnedObject(from_, into) ==
    IF IsDict(from_) /\ IsDict(into) THEN "output"
    ELSE IF IsDict(from_) \/ IsDict(into) THEN "copy"
    ELSE IF IsEmptyMarker(from_) /\ IsEmptyMarker(into) THEN "None"
    ELSE IF IsEmptyMarker(from_) THEN "into"
    ELSE IF IsEmptyMarker(into) THEN "from_"
    ELSE IF Truthy(from_) THEN "from_" ELSE "into"

\* --------------------------------------------------- inputs of the merge

\* Most items of a dict drawn as an input.
MaxItems == 2

\* The keys of the items of s.
UsedKeys(s) == {s[n].key : n \in 1..Len(s)}

\* Every sequence of at most n items with distinct keys among keys and
\* values among values, in every order.
RECURSIVE ItemSeqs(_, _, _)
ItemSeqs(keys, values, n) ==
    IF n = 0 THEN {<<>>}
    ELSE LET shorter == ItemSeqs(keys, values, n - 1)
             longest == {s \in shorter : Len(s) = n - 1}
         IN  shorter \cup UNION {
                 {Append(s, Item(k, v)) : k \in keys \ UsedKeys(s), v \in values}
                 : s \in longest}

DictsOf(keys, values, n) == {Mapping(s) : s \in ItemSeqs(keys, values, n)}

KeyA == <<"a">>
KeyB == <<"b">>
KeyAB == <<"a", ".", "b">>
KeyAdashB == <<"a", "-", "b">>

Scalars == {PyScalar(l) : l \in {"None", "False", "0", "''", "'b'", "'d'"}}

\* {}, {"b": "d"}, {"b": {}}, {"a.b": "d"} and {"a.b": {}}
InnerDicts == DictsOf({KeyB, KeyAB}, {PyScalar("'d'"), Mapping(<<>>)}, 1)

\* [], ["d"], [{"a.b": "d"}] and [[{"a.b": "d"}]]
Lists ==
    {PyList(<<>>), PyList(<<PyScalar("'d'")>>),
     PyList(<<Mapping(<<Item(KeyAB, PyScalar("'d'"))>>)>>),
     PyList(<<PyList(<<Mapping(<<Item(KeyAB, PyScalar("'d'"))>>)>>)>>)}

\* The values held inside the dicts that are merged, and those dicts.
MergeLeaves ==
    {PyScalar("0"), PyScalar("'b'"), PyScalar("'d'"), PyList(<<>>),
     Mapping(<<>>), Mapping(<<Item(KeyB, PyScalar("'d'"))>>),
     Mapping(<<Item(KeyB, Mapping(<<>>))>>)}
MergeDicts == DictsOf({KeyA, KeyB}, MergeLeaves, MaxItems)

\* Every value handed to merge_values: the marker, scalars, lists, dicts.
MergeValues == {_EMPTY} \cup Scalars \cup Lists \cup MergeDicts

\* --------------------------------------------------- calls of formatters

Called(op, value, object) == [op |-> op, value |-> value, object |-> object]

\* merge_values(from_, into) is called on the inputs.
CallMergeValues ==
    /\ output' = Called("merge_values", merge_values(inputs[1], inputs[2]),
                        ReturnedObject(inputs[1], inputs[2]))
    /\ UNCHANGED <<inputs, log_state, thread_of, scopes, exc, held, result,
                   decorated, warned>>

\* union_keys(dx, dy) is called on the inputs, two dicts.
CallUnionKeys ==
    /\ IsDict(inputs[1]) /\ IsDict(inputs[2])
    /\ output' = Called("union_keys", union_keys(inputs[1], inputs[2]), "list")
    /\ UNCHANGED <<inputs, log_state, thread_of, scopes, exc, held, result,
                   decorated, warned>>

InitMerge ==
    /\ InitCommon
    /\ thread_of = [p \in Paths |-> "main"]
    /\ inputs \in MergeValues \X MergeValues
    /\ output = NotCalled

NextMerge ==
    \/ CallMergeValues
    \/ CallUnionKeys

\* merge_values and union_keys called on every pair of the values above.
SpecMerge == InitMerge /\ [][NextMerge]_vars

\* ------------------------------------- flatten_dict, de_dot, normalize_dict

\* A bug: the sub-key is put before the key.
PrefixLoopSwapped(top_level, key, items, n) ==
    LET loop[m \in 0..n] ==
            IF m = 0 THEN top_level
            ELSE DictSet(loop[m - 1], items[m].key \o <<Dot>> \o key,
                         items[m].value)
    IN  loop[n]

\* The `for sub_key, sub_value in flatten_dict(val).items()` loop, after its
\* first n items: top_level[f"{key}.{sub_key}"] = sub_value.
PrefixLoop(top_level, key, items, n) ==
    LET loop[m \in 0..n] ==
            IF m = 0 THEN top_level
            ELSE DictSet(loop[m - 1], key \o <<Dot>> \o items[m].key,
                         items[m].value)
    IN  loop[n]

RECURSIVE flatten_dict(_)

\* The `for key, val in value.items()` loop, after its first n items.
RECURSIVE FlattenLoop(_, _)
FlattenLoop(items, n) ==
    IF n = 0 THEN Mapping(<<>>)
    ELSE LET top_level == FlattenLoop(items, n - 1)
             key == items[n].key
             val == items[n].value
         IN  IF ~IsDict(val) THEN DictSet(top_level, key, val)
             ELSE LET sub == flatten_dict(val).val
                  IN  PrefixLoop(top_level, key, sub, Len(sub))

flatten_dict(value) == FlattenLoop(value.val, Len(value.val))

\* The first n letters of dot_string, split at every ".".
RECURSIVE Split(_, _)
Split(dot_string, n) ==
    IF n = 0 THEN << <<>> >>
    ELSE LET arr == Split(dot_string, n - 1)
         IN  IF dot_string[n] = Dot THEN Append(arr, <<>>)
             ELSE [arr EXCEPT ![Len(arr)] = Append(@, dot_string[n])]

\* `while len(arr) > 1: value = {arr.pop(): value}`, then
\* `return arr.pop(), value`.
RECURSIVE DeDotLoop(_, _)
DeDotLoop(arr, value) ==
    IF Len(arr) > 1
    THEN DeDotLoop(SubSeq(arr, 1, Len(arr) - 1),
                   Mapping(<<Item(Last(arr), value)>>))
    ELSE <<Last(arr), value>>

de_dot(dot_string, value) ==
    DeDotLoop(Split(dot_string, Len(dot_string)), value)

RECURSIVE normalize_dict(_)

\* The `for key, val in value.items()` loop, after its first n items.
RECURSIVE NormalizeLoop(_, _)
NormalizeLoop(items, n) ==
    IF n = 0 THEN Mapping(<<>>)
    ELSE LET out == NormalizeLoop(items, n - 1)
             val == items[n].value
             normalized ==
                 IF IsDict(val) THEN normalize_dict(val)
                 ELSE IF IsList(val)
                 THEN PyList([m \in 1..Len(val.val) |-> normalize_dict(val.val[m])])
                 ELSE val
             kv == de_dot(items[n].key, normalized)
         IN  DictSet(out, kv[1], merge_values(kv[2], DictGet(out, kv[1], _EMPTY)))

normalize_dict(value) ==
    IF ~IsDict(value) THEN value
    ELSE NormalizeLoop(value.val, Len(value.val))

\* ------------------------------------------------------------ format_json

\* The place of a letter in the order of str: "-" < "." < "@" < "a" < "b"
\* < "e" < "l" < "m" < "s" < "t"; no word here begins another one.
Ord(letter) ==
    CASE letter = "-" -> 1 [] letter = "." -> 2 [] letter = "@timestamp" -> 3
      [] letter = "a" -> 4 [] letter = "b" -> 5 [] letter = "error" -> 6
      [] letter = "extra" -> 7 [] letter = "level" -> 8 [] letter = "log" -> 9
      [] letter = "message" -> 10 [] letter = "stack_trace" -> 11
      [] letter = "type" -> 12

\* x < y on str.
RECURSIVE StrLess(_, _)
StrLess(x, y) ==
    IF y = <<>> THEN FALSE
    ELSE IF x = <<>> THEN TRUE
    ELSE IF Head(x) = Head(y) THEN StrLess(Tail(x), Tail(y))
    ELSE Ord(Head(x)) < Ord(Head(y))

\* The str that the letters of key spell.
RECURSIVE Spell(_)
Spell(key) == IF key = <<>> THEN "" ELSE Head(key) \o Spell(Tail(key))

\* json.dumps of a scalar.
JsonLiteral(literal) ==
    CASE literal = "None" -> "null" [] literal = "False" -> "false"
      [] literal = "0" -> "0" [] literal = "''" -> "\"\""
      [] literal = "'b'" -> "\"b\"" [] literal = "'d'" -> "\"d\""
      [] literal = "'x'" -> "\"x\"" [] literal = "'t'" -> "\"t\""
      [] literal = "'m'" -> "\"m\"" [] literal = "'INFO'" -> "\"INFO\""
      [] literal = "'ValueError'" -> "\"ValueError\""

\* json.dumps(value, sort_keys=False, separators=separators): the members
\* of a dict are written in the order the dict holds them.
RECURSIVE JsonDumps(_, _)
RECURSIVE JsonMembers(_, _, _)
JsonMembers(v, separators, n) ==
    IF n = 0 THEN ""
    ELSE JsonMembers(v, separators, n - 1)
         \o (IF n = 1 THEN "" ELSE separators[1])
         \o (IF IsDict(v)
             THEN "\"" \o Spell(v.val[n].key) \o "\"" \o separators[2]
                  \o JsonDumps(v.val[n].value, separators)
             ELSE JsonDumps(v.val[n], separators))
JsonDumps(value, separators) ==
    IF IsDict(value)
    THEN "{" \o JsonMembers(value, separators, Len(value.val)) \o "}"
    ELSE IF IsList(value)
    THEN "[" \o JsonMembers(value, separators, Len(value.val)) \o "]"
    ELSE JsonLiteral(value.literal)

Timestamp == <<"@timestamp">>
LogLevel == <<"log", ".", "level">>
Message == <<"message">>
first_keys == <<Timestamp, LogLevel, Message>>

\* {x: event[x] for x in keys}
SubDict(event, keys) ==
    Mapping([n \in 1..Len(keys) |-> Item(keys[n], DictGet(event, keys[n], _EMPTY))])

\* The dict format_json hands to json.dumps: the first keys the event
\* holds, then the normalized dict of its other keys in sorted(event.keys()) order.
OrderedEvent(event) ==
    LET popped == SelectSeq(first_keys, LAMBDA x : KeyIndex(event.val, x) # 0)
        others == SelectSeq(DictKeys(event),
                            LAMBDA x : \A n \in 1..Len(popped) : popped[n] # x)
        normalized_event == normalize_dict(SubDict(event, SortSeq(others, StrLess)))
    IN  DictUpdate(SubDict(event, popped), normalized_event)

format_json(event) == JsonDumps(OrderedEvent(event), <<",", ":">>)

\* ------------------------------------- inputs of flatten and normalize

\* The values held by the dicts that are flattened and normalized.
FieldLeaves ==
    {PyScalar("0"), PyScalar("'b'"), PyScalar("'d'")} \cup Lists \cup InnerDicts
FieldDicts == DictsOf({KeyA, KeyB, KeyAB}, FieldLeaves, MaxItems)

\* Flat events: any of the first keys, in any order, before or after at
\* most MaxItems other keys that hold a scalar or a list.
FirstItems ==
    ItemSeqs({Timestamp}, {PyScalar("'t'")}, 1)
    \cup {<<Item(LogLevel, PyScalar("'INFO'")), Item(Message, PyScalar("'m'"))>>,
          <<Item(Message, PyScalar("'m'")), Item(Timestamp, PyScalar("'t'")),
            Item(LogLevel, PyScalar("'INFO'"))>>}
OtherItems ==
    ItemSeqs({KeyA, KeyB, KeyAB, KeyAdashB, <<"b", ".", "b">>, <<"b", ".", "a">>,
              Message \o <<Dot>> \o KeyA},
             {PyScalar("'b'"), PyList(<<PyScalar("'d'")>>)}, MaxItems)
FlatEvents ==
    {Mapping(first \o others) : first \in FirstItems, others \in OtherItems}
    \cup {Mapping(others \o first) : first \in FirstItems, others \in OtherItems}

\* flatten_dict(value) is called on the input.
CallFlattenDict ==
    /\ output' = Called("flatten_dict", flatten_dict(inputs[1]), "dict")
    /\ UNCHANGED <<inputs, log_state, thread_of, scopes, exc, held, result,
                   decorated, warned>>

\* normalize_dict(value) is called on the input.
CallNormalizeDict ==
    /\ output' = Called("normalize_dict", normalize_dict(inputs[1]), "dict")
    /\ UNCHANGED <<inputs, log_state, thread_of, scopes, exc, held, result,
                   decorated, warned>>

\* flatten_dict(normalize_dict(flatten_dict(value))) is called on the input.
CallRoundTrip ==
    /\ output' = Called("flatten_dict(normalize_dict(flatten_dict",
                        flatten_dict(normalize_dict(flatten_dict(inputs[1]))),
                        "dict")
    /\ UNCHANGED <<inputs, log_state, thread_of, scopes, exc, held, result,
                   decorated, warned>>

\* ECSJsonFormatter().format_json(event) is called on the input; `object`
\* is the dict it hands to json.dumps.
CallFormatJson ==
    /\ output' = Called("format_json", format_json(inputs[1]),
                        OrderedEvent(inputs[1]))
    /\ UNCHANGED <<inputs, log_state, thread_of, scopes, exc, held, result,
                   decorated, warned>>

InitNormalize ==
    /\ InitCommon
    /\ thread_of = [p \in Paths |-> "main"]
    /\ inputs \in {<<value>> : value \in FieldDicts \cup FlatEvents}
    /\ output = NotCalled

NextNormalize ==
    \/ CallFlattenDict
    \/ CallNormalizeDict
    \/ CallRoundTrip
    \/ CallFormatJson

\* flatten_dict, normalize_dict and format_json called on every dict above.
SpecNormalize == InitNormalize /\ [][NextNormalize]_vars

\* ------------------------------------------ get_event, format_message

\* The key "error.type", "error.message" or "error.stack_trace".
ErrorField(name) == <<"error", ".", name>>

\* The attributes of a LogRecord, and the fields they are renamed to.
RECORD_MAPPINGS ==
    Mapping(<<Item(<<"exc_info">>, <<>>), Item(<<"levelname">>, LogLevel),
              Item(Message, <<>>), Item(<<"msg">>, <<>>)>>)

\* The `for from_key, value in record.__dict__.items()` loop, after its
\* first n items.
RECURSIVE RecordLoop(_, _, _)
RecordLoop(event, items, n) ==
    IF n = 0 THEN event
    ELSE LET before == RecordLoop(event, items, n - 1)
             from_key == items[n].key
             value == items[n].value
             to_key == DictGet(RECORD_MAPPINGS, from_key, from_key)
         IN  IF value = None \/ to_key = <<>> THEN before
             ELSE DictSet(before, to_key, value)

\* get_event(record), record.__dict__ being the dict `record` and
\* current_logging_context() returning `context`.
get_event(record, context) ==
    LET started == Mapping(<<Item(Timestamp, PyScalar("'t'")),
                             Item(Message, PyScalar("'m'"))>>)
        mapped == RecordLoop(started, record.val, Len(record.val))
        attribute == DictGet(record, <<"extra">>, _EMPTY)
        extra == IF IsEmptyMarker(attribute) \/ ~Truthy(attribute)
                 THEN Mapping(<<>>) ELSE attribute
        event == DictUpdate(DictUpdate(mapped, Copy(context)), extra)
        exc_info == DictGet(record, <<"exc_info">>, None)
    IN  flatten_dict(
            IF Truthy(exc_info)
            THEN DictSet(DictSet(DictSet(event, ErrorField("type"), PyScalar("'ValueError'")),
                                 ErrorField("message"), PyScalar("'x'")),
                         ErrorField("stack_trace"), PyScalar("''"))
            ELSE event)

\* str(value), and f"{value}", of a scalar.
PyStr(value) ==
    LET literal == value.literal
    IN  CASE literal = "None" -> "None" [] literal = "False" -> "False"
          [] literal = "0" -> "0" [] literal = "''" -> ""
          [] literal = "'b'" -> "b" [] literal = "'d'" -> "d"
          [] literal = "'x'" -> "x" [] literal = "'t'" -> "t"
          [] literal = "'m'" -> "m" [] literal = "'INFO'" -> "INFO"
          [] literal = "'ValueError'" -> "ValueError"

\* isinstance(value, str)
IsStr(value) ==
    value.type = "scalar" /\ value.literal \notin {"None", "False", "0"}

Formatters == {"ConsoleFormatter", "PlainTextFormatter", "ECSJsonFormatter"}

\* The escape codes of ConsoleFormatter: "32" is colorist.Color.GREEN, "97"
\* colorist.BrightColor.WHITE (the color of INFO) and "0" colorist.Color.OFF
\* and ConsoleFormatter.reset; the other formatters use no color.
Color(formatter, code) ==
    IF formatter = "ConsoleFormatter" THEN "ESC[" \o code \o "m" ELSE ""

\* colorize(value, color), value being a str already.
colorize(formatter, value, color) ==
    IF color = "" THEN value ELSE color \o value \o Color(formatter, "0")

\* format_extra(value): a str as it is, any other value by json.dumps.
format_extra(value) ==
    IF IsStr(value) THEN PyStr(value)
    ELSE JsonDumps(value, <<", ", ": ">>)

\* format_field(key, value), for a value that is not None.
format_field(formatter, key, value) ==
    colorize(formatter, Spell(key), Color(formatter, "32")) \o "=" \o format_extra(value)

\* The fields format_message leaves out of the key=value pairs.
suppress_fields == {ErrorField("type"), ErrorField("message"), ErrorField("stack_trace")}

\* " ".join of the fields of the first n items that are not None.
RECURSIVE JoinPairs(_, _, _)
JoinPairs(formatter, items, n) ==
    IF n = 0 THEN ""
    ELSE LET before == JoinPairs(formatter, items, n - 1)
         IN  IF items[n].value = None THEN before
             ELSE before \o (IF before = "" THEN "" ELSE " ")
                  \o format_field(formatter, items[n].key, items[n].value)

\* format_message(record) of the formatter: what it returns or raises.
format_message(formatter, record, context) ==
    LET event == get_event(record, context)
        flat == flatten_dict(event)
        timestamp == DictGet(flat, Timestamp, _EMPTY)
        message == DictGet(flat, Message, _EMPTY)
        level == DictGet(flat, LogLevel, _EMPTY)
        popped == {Timestamp, Message, LogLevel} \cup suppress_fields
        rest == Mapping(SelectSeq(flat.val, LAMBDA item : item.key \notin popped))
        pairs_string == JoinPairs(formatter, rest.val, Len(rest.val))
    IN  IF formatter = "ECSJsonFormatter" THEN Returned(format_json(event))
        ELSE IF \E missing \in {timestamp, message, level} : IsEmptyMarker(missing)
        THEN Raised("KeyError")
        ELSE Returned(
            "[" \o PyStr(timestamp) \o "] ["
            \o colorize(formatter, PyStr(level), Color(formatter, "97")) \o "] "
            \o colorize(formatter, PyStr(message), Color(formatter, "97"))
            \o (IF rest.val # <<>> THEN " | " \o pairs_string ELSE "")
            \o Color(formatter, "0"))

\* ------------------------------------------------ inputs of the events

\* The dicts current_logging_context() returns, and those a record holds
\* as its attribute `extra`.
ContextDicts ==
    DictsOf({KeyA, KeyAB, Message},
            {PyScalar("'b'"), Mapping(<<Item(KeyB, PyScalar("'b'"))>>)}, MaxItems)
ExtraDicts ==
    DictsOf({KeyA, KeyAB, ErrorField("type")},
            {PyScalar("'d'"), Mapping(<<Item(KeyB, PyScalar("'d'"))>>)}, MaxItems)

\* record.__dict__ of the records logged: msg, levelname and exc_info (None
\* or the exc_info of a ValueError), then the keys of the `extra` argument
\* of the logging call: none, "a" or "a.b", and perhaps "extra".
Records ==
    {Mapping(<<Item(<<"msg">>, PyScalar("'m'")),
               Item(<<"levelname">>, PyScalar("'INFO'")), Item(<<"exc_info">>, exc_info)>>
             \o attributes \o extra) :
        exc_info \in {None, PyScalar("'ValueError'")},
        attributes \in ItemSeqs({KeyA, KeyAB}, {PyScalar("'x'")}, 1),
        extra \in {<<>>} \cup {<<Item(<<"extra">>, e)>> : e \in ExtraDicts \cup {None}}}

\* get_event(record) is called.
CallGetEvent ==
    /\ output' = Called("get_event", get_event(inputs[1], inputs[2]), "dict")
    /\ UNCHANGED <<inputs, log_state, thread_of, scopes, exc, held, result,
                   decorated, warned>>

\* formatter().format_message(record) is called.
CallFormatMessage(formatter) ==
    /\ output' = Called("format_message",
                        format_message(formatter, inputs[1], inputs[2]),
                        formatter)
    /\ UNCHANGED <<inputs, log_state, thread_of, scopes, exc, held, result,
                   decorated, warned>>

InitEvent ==
    /\ InitCommon
    /\ thread_of = [p \in Paths |-> "main"]
    /\ inputs \in Records \X ContextDicts
    /\ output = NotCalled

NextEvent ==
    \/ CallGetEvent
    \/ \E formatter \in Formatters : CallFormatMessage(formatter)

\* Records formatted in every logging context above.
SpecEvent == InitEvent /\ [][NextEvent]_vars

\* ------------------------------------ key_to_dict, merge_dicts, unflatten_dict

\* The two copies of formatters.py: the package jmullan.logging, and the
\* package jmullan_logging that tests/sample.py imports.
Packages == {"jmullan.logging", "jmullan_logging"}

\* key_to_dict(key, value) of the package: parts = key.split(".", 1), and
\* the key of the dict returned is parts[0] in jmullan.logging, the whole
\* key in jmullan_logging.
RECURSIVE key_to_dict(_, _, _)
key_to_dict(package, key, value) ==
    LET dots == {n \in 1..Len(key) : key[n] = Dot}
        first == CHOOSE n \in dots : \A m \in dots : n <= m
        parts == <<SubSeq(key, 1, first - 1), SubSeq(key, first + 1, Len(key))>>
    IN  IF dots = {} THEN Mapping(<<Item(key, value)>>)
        ELSE Mapping(<<Item(IF package = "jmullan.logging" THEN parts[1] ELSE key,
                            key_to_dict(package, parts[2], value))>>)

\* merge_dicts(into_dict, from_dict), the same in both packages: what it
\* returns or raises. `isinstance(dict, value)` has its arguments swapped,
\* and raises TypeError for a value that is not a type; no value here is a
\* type, so the branches behind it are never taken.
merge_dicts(into_dict, from_dict) ==
    LET items == from_dict.val
        loop[n \in 0..Len(items)] ==
            IF n = 0 THEN Returned(Copy(into_dict))
            ELSE LET new_dict == loop[n - 1]
                     into_value == DictGet(new_dict.value, items[n].key, None)
                 IN  IF new_dict.raised # "none" THEN new_dict
                     ELSE IF into_value = None
                     THEN Returned(DictSet(new_dict.value, items[n].key,
                                           items[n].value))
                     ELSE Raised("TypeError")
    IN  loop[Len(items)]

\* unflatten_dict(value) of the package: what it returns or raises.
unflatten_dict(package, value) ==
    LET loop[n \in 0..Len(value.val)] ==
            IF n = 0 THEN Returned(Mapping(<<>>))
            ELSE LET top_level == loop[n - 1]
                     subdict == key_to_dict(package, value.val[n].key,
                                            value.val[n].value)
                 IN  IF top_level.raised # "none" THEN top_level
                     ELSE merge_dicts(top_level.value, subdict)
    IN  loop[Len(value.val)]

\* ------------------------------------------------- inputs of unflatten

MaxKeyLen == 3

\* The keys of at most MaxKeyLen letters: "", "a", "a.b", ".", "a..", ...
DottedKeys == UNION {[1..n -> {"a", "b", Dot}] : n \in 0..MaxKeyLen}

\* key_to_dict(key, value) of the package is called.
CallKeyToDict(package) ==
    /\ Len(inputs) = 2
    /\ output' = Called("key_to_dict",
                        key_to_dict(package, inputs[1], inputs[2]), package)
    /\ UNCHANGED <<inputs, log_state, thread_of, scopes, exc, held, result,
                   decorated, warned>>

\* unflatten_dict(value) of the package is called.
CallUnflattenDict(package) ==
    /\ Len(inputs) = 1
    /\ output' = Called("unflatten_dict", unflatten_dict(package, inputs[1]),
                        package)
    /\ UNCHANGED <<inputs, log_state, thread_of, scopes, exc, held, result,
                   decorated, warned>>

\* A key and a value, or a dict of at most MaxItems dotted keys.
InitUnflatten ==
    /\ InitCommon
    /\ thread_of = [p \in Paths |-> "main"]
    /\ \/ inputs \in DottedKeys \X {None, PyScalar("'d'"), Mapping(<<>>)}
       \/ inputs \in {<<d>> : d \in DictsOf({KeyA, KeyAB, <<"a", ".", "a">>, KeyB,
                                            <<"a", ".", "b", ".", "a">>},
                                           {None, PyScalar("0"), PyScalar("'d'")},
                                           MaxItems)}
    /\ output = NotCalled

NextUnflatten ==
    \E package \in Packages :
        CallKeyToDict(package) \/ CallUnflattenDict(package)

SpecUnflatten == InitUnflatten /\ [][NextUnflatten]_vars

\* ----------------------------------------------------------- properties


\* The fields of the active scopes of p, the innermost scope that sets a
\* key deciding its value.
ActiveFields(p) ==
    LET setters(k) == {i \in 1..Len(scopes[p]) : k \in DOMAIN scopes[p][i].kwargs}
        CHOOSEMAX(S) == CHOOSE i \in S : \A j \in S : j <= i
    IN  [k \in {key \in Keys : setters(key) # {}} |->
            scopes[p][CHOOSEMAX(setters(k))].kwargs[k]]

\* C1: on one thread, every exit of a logging_context scope, by return or
\* by exception, pops exactly one frame and leaves current_logging_context()
\* equal to what it was just before the scope was entered; with no scope
\* left the context is the empty base frame.
C1_ExitRestores ==
    /\ [][\A p \in Paths :
            Len(scopes'[p]) < Len(scopes[p]) =>
                /\ Len(scopes'[p]) = Len(scopes[p]) - 1
                /\ Len(log_state'[thread_of[p]].stack)
                       = Len(log_state[thread_of[p]].stack) - 1
                /\ CurrentContext(p)' = Last(scopes[p]).before]_vars
    /\ [](\A p \in Paths : scopes[p] = <<>> => CurrentContext(p) = EmptyDict)

\* A scope nested in another was left by an exception and the context is
\* the outer scope's again.
C1_Witness ==
    /\ exc["A"] = "Error"
    /\ Len(scopes["A"]) = 1
    /\ scopes["A"][1].kwargs = [foo |-> "aaa"]
    /\ CurrentContext("A") = [foo |-> "aaa"]
    /\ Len(log_state["main"].stack) = 2

\* C2: with two threads interleaving scope entries, exits and reads, every
\* field a thread observes was set by one of that thread's own active
\* scopes, and a thread inside no scope observes the empty frame, whether or
\* not its LogState exists yet.
C2_ThreadIsolation ==
    \A p \in Paths :
        /\ \A k \in DOMAIN CurrentContext(p) :
              /\ CurrentContext(p)[k] \in ValsOf(p)
              /\ \E i \in 1..Len(scopes[p]) :
                    /\ k \in DOMAIN scopes[p][i].kwargs
                    /\ scopes[p][i].kwargs[k] = CurrentContext(p)[k]
        /\ scopes[p] = <<>> => CurrentContext(p) = EmptyDict

\* Both threads are inside scopes that set foo, and each sees its own value.
C2_Witness ==
    /\ scopes["A"] # <<>> /\ scopes["B"] # <<>>
    /\ CurrentContext("A") = [foo |-> "aaa"]
    /\ CurrentContext("B") = [foo |-> "ccc", baz |-> "ccc"]

\* C3: two tasks of one thread that interleave their scopes each see only
\* the fields of their own scopes.
C3_TaskIsolation ==
    \A p \in Paths :
        \A k \in DOMAIN CurrentContext(p) : CurrentContext(p)[k] \in ValsOf(p)

\* C4: the top frame of a thread's stack is the union of the fields of its
\* active scopes, the innermost scope winning a key set more than once.
C4_TopIsUnionInnermostWins ==
    \A p \in Paths : CurrentContext(p) = ActiveFields(p)

\* An inner scope overrides foo and keeps the outer scope's baz.
C4_Witness ==
    /\ Len(scopes["A"]) = 2
    /\ scopes["A"][1].kwargs = [foo |-> "aaa", baz |-> "aaa"]
    /\ scopes["A"][2].kwargs = [foo |-> "bbb"]
    /\ CurrentContext("A") = [foo |-> "bbb", baz |-> "aaa"]

\* C7: `with logging_context(**fields) as frame` binds frame to a mapping
\* equal to the context active inside the scope.
C7_TargetIsActiveContext ==
    \A p \in Paths :
        (scopes[p] # <<>> /\ exc[p] = "none") =>
            Last(scopes[p]).target = PyDict(CurrentContext(p))

RawStack == log_state[LocalSlot(thread_of[RawUser])].stack

\* C5 as stated: pop never raises, a pop with only the base frame held is a
\* no-op that returns an empty frame, and the stack is never left empty.
C5_PopKeepsBaseFrame ==
    /\ result.op = "pop" => result.outcome.raised = "none"
    /\ (result.op = "pop" /\ result.before <= 1) =>
          /\ result.outcome.value = PyDict(EmptyDict)
          /\ Len(RawStack) = 1
    /\ log_state[LocalSlot(thread_of[RawUser])].exists => RawStack # <<>>

\* C5 as amended: pop never raises; a pop of a non-empty stack, the stack
\* that holds only the base frame included, removes the top frame and
\* returns it; a pop of the empty stack is a no-op that returns an empty
\* frame; after push or top the stack holds at least one frame.
C5_PopNeverRaises ==
    /\ [][result'.op = "pop" =>
            LET st == GetLogState(log_state, thread_of[RawUser]).stack
            IN  /\ result'.outcome.raised = "none"
                /\ st = <<>> =>
                      /\ RawStack' = <<>>
                      /\ result'.outcome.value = PyDict(EmptyDict)
                /\ st # <<>> =>
                      /\ RawStack' = SubSeq(st, 1, Len(st) - 1)
                      /\ result'.outcome.value = PyDict(Last(st))]_vars
    /\ [](result.op \in {"push", "top"} => RawStack # <<>>)

\* The base frame was popped, and then the empty stack was popped.
C5_Witness ==
    /\ result.op = "pop"
    /\ result.before = 0
    /\ result.outcome = Returned(PyDict(EmptyDict))
    /\ log_state[LocalSlot(thread_of[RawUser])].exists
    /\ RawStack = <<>>

\* C6 as stated: adding, changing or removing a key in the mapping that
\* current_logging_context() returned changes no frame of the stack.
C6_ReturnsCopy ==
    [][result'.op \in {"setitem", "delitem"} => log_state' = log_state]_vars

\* C6 as amended: the mapping returned is the top frame itself.  A key set or
\* removed in it right after the call is set or removed in the top frame,
\* hence in the result of the next call, and no other frame changes.
C6_ReturnsTopFrameItself ==
    [][(result.op = "top" /\ result'.op \in {"setitem", "delitem"}) =>
          /\ Len(RawStack') = Len(RawStack)
          /\ \A i \in 1..(Len(RawStack) - 1) : RawStack'[i] = RawStack[i]
          /\ result'.op = "setitem" =>
                /\ result'.key \in DOMAIN CurrentContext(RawUser)'
                /\ CurrentContext(RawUser)'[result'.key] = result'.value
          /\ result'.op = "delitem" =>
                result'.key \notin DOMAIN CurrentContext(RawUser)'
          /\ \A k \in RawKeys \ {result'.key} :
                /\ k \in DOMAIN CurrentContext(RawUser)'
                      <=> k \in DOMAIN CurrentContext(RawUser)
                /\ k \in DOMAIN CurrentContext(RawUser) =>
                      CurrentContext(RawUser)'[k] = CurrentContext(RawUser)[k]]_vars

\* A key was removed from the top frame through the returned mapping: the
\* frame below still has it.
C6_Witness ==
    /\ result.op = "delitem"
    /\ held = 2
    /\ RawStack = <<[foo |-> "aaa"], EmptyDict>>

\* The parameters of fn that a value can be passed to by name, with the
\* value each has in the call: positional, by keyword, or its default.
ParameterValues(fn, call) ==
    LET sig == SignatureOf(fn)
        index(name) == CHOOSE i \in Named(sig) : sig[i].name = name
    IN  [name \in {sig[i].name : i \in Named(sig)} |->
            IF /\ sig[index(name)].kind = "positional_or_keyword"
               /\ index(name) <= Len(call.args)
            THEN call.args[index(name)]
            ELSE IF name \in DOMAIN call.kwargs THEN call.kwargs[name]
            ELSE sig[index(name)].default]

\* C8: during a call of a wrapped function from an empty context, the
\* context is exactly the map from each requested name that is a parameter
\* to the value the parameter has in the call, its default included.
C8_CapturesParameterValues ==
    \A p \in Paths :
        (/\ scopes[p] # <<>>
         /\ Last(scopes[p]).fn # ""
         /\ ~HasKind(SignatureOf(Last(scopes[p]).fn), "var_keyword")
         /\ ~Blocked(p)
         /\ Last(scopes[p]).before = EmptyDict) =>
            LET s == Last(scopes[p])
                values == ParameterValues(s.fn, s.call)
            IN  CurrentContext(p) =
                    [name \in DOMAIN values \cap Range(ArgNamesOf(s.fn)) |->
                        values[name]]

\* None of the names asked for is a parameter of fn, and fn has no **kwargs.
NoneResolves(fn) ==
    /\ ~HasKind(SignatureOf(fn), "var_keyword")
    /\ \A i \in 1..Len(SignatureOf(fn)) :
          SignatureOf(fn)[i].name \notin Range(ArgNamesOf(fn))

\* C9 as stated: where no name resolves the decorator returns the original
\* function, and calling it pushes no frame.
C9_ReturnsOriginalFunction ==
    \A fn \in Functions :
        NoneResolves(fn) =>
            /\ decorated[fn] \in {Undefined, Original(fn)}
            /\ \A p \in Paths : \A i \in 1..Len(scopes[p]) : scopes[p][i].fn # fn

\* C9 as amended: where no name resolves the decorator still returns the
\* wrapper, and a call of it pushes a frame that adds no field: the frame
\* equals the caller's context.
C9_WrapperAddsNoField ==
    \A fn \in Functions :
        NoneResolves(fn) =>
            /\ decorated[fn] \in {Undefined, Wrapper(fn)}
            /\ \A p \in Paths : \A i \in 1..Len(scopes[p]) :
                  scopes[p][i].fn = fn =>
                      /\ scopes[p][i].kwargs = EmptyDict
                      /\ log_state[scopes[p][i].state].stack[scopes[p][i].depth + 1]
                             = scopes[p][i].before

\* error("p1") runs inside `with logging_context(foo="ccc")`.
C9_Witness ==
    /\ decorated["error"] = Wrapper("error")
    /\ Len(scopes[Caller]) = 2
    /\ Last(scopes[Caller]).fn = "error"
    /\ ~Blocked(Caller)
    /\ CurrentContext(Caller) = [foo |-> "ccc"]
    /\ Len(log_state[LocalSlot(thread_of[Caller])].stack) = 3

\* The scope belongs to a call whose arguments do not bind.
FailedBind(s) ==
    /\ s.fn # ""
    /\ ~Bind(SignatureOf(s.fn), s.call.args, s.call.kwargs).ok

\* C10: a call whose arguments do not bind pushes a scope that adds no
\* field and calls f with the same arguments; the TypeError f raises reaches
\* the caller, and the stack then has the depth and top frame it had before
\* the call.
C10_BindingFailure ==
    /\ [](\A p \in Paths : \A i \in 1..Len(scopes[p]) :
            FailedBind(scopes[p][i]) =>
                /\ scopes[p][i].kwargs = EmptyDict
                /\ scopes[p][i].forwarded = scopes[p][i].call
                /\ i = Len(scopes[p]) => CurrentContext(p) = scopes[p][i].before)
    /\ [][\A p \in Paths :
            (/\ Len(scopes'[p]) < Len(scopes[p])
             /\ FailedBind(Last(scopes[p]))) =>
                /\ exc'[p] = "TypeError"
                /\ Len(log_state'[LocalSlot(thread_of[p])].stack)
                       = Last(scopes[p]).depth
                /\ CurrentContext(p)' = Last(scopes[p]).before]_vars

\* A call that did not bind, made inside `with logging_context(foo="ccc")`,
\* has ended in TypeError and the context is that scope's again.
C10_Witness ==
    /\ exc[Caller] = "TypeError"
    /\ Len(scopes[Caller]) = 1
    /\ CurrentContext(Caller) = [foo |-> "ccc"]
    /\ Len(log_state[LocalSlot(thread_of[Caller])].stack) = 2

\* ------------------------------------------- properties of the merge

Present(x) == ~IsEmptyMarker(x)

\* The two arguments of the call of merge_values or union_keys.
Arg1 == inputs[1]
Arg2 == inputs[2]

\* C11 as stated: merge_values(from_, into) of two present values that are
\* not dicts (None, False, 0 and '' included, and lists) returns from_; so
\* at a key where two merged dicts both hold such a value the result holds
\* the value of from_.
C11_FromWinsScalarCollision ==
    output.op = "merge_values" =>
        /\ (Present(Arg1) /\ Present(Arg2) /\ ~IsDict(Arg1) /\ ~IsDict(Arg2)) =>
              output.value = Arg1
        /\ (IsDict(Arg1) /\ IsDict(Arg2)) =>
              \A k \in UsedKeys(Arg1.val) \cap UsedKeys(Arg2.val) :
                  LET x == DictGet(Arg1, k, _EMPTY)
                      y == DictGet(Arg2, k, _EMPTY)
                  IN  (~IsDict(x) /\ ~IsDict(y)) =>
                          DictGet(output.value, k, _EMPTY) = x

C13_MapWinsOverNonMap ==
    output.op = "merge_values" =>
        /\ (IsDict(Arg1) /\ ~IsDict(Arg2)) =>
              output.value = Arg1 /\ output.object = "copy"
        /\ (~IsDict(Arg1) /\ IsDict(Arg2)) =>
              output.value = Arg2 /\ output.object = "copy"

\* merge_values("b", {"a": {}}) was called and gave a copy of {"a": {}}.
C13_Witness ==
    /\ output.op = "merge_values"
    /\ inputs = <<PyScalar("'b'"), Mapping(<<Item(KeyA, Mapping(<<>>))>>)>>
    /\ output.value = Mapping(<<Item(KeyA, Mapping(<<>>))>>)
    /\ output.object = "copy"

\* The first occurrence of every element of the first n elements of s.
RECURSIVE KeepFirst(_, _)
KeepFirst(s, n) ==
    IF n = 0 THEN <<>>
    ELSE LET before == KeepFirst(s, n - 1)
         IN  IF \E m \in 1..Len(before) : before[m] = s[n] THEN before
             ELSE Append(before, s[n])

\* The value is a dict with no key.
HoldsNothing(x) == IsDict(x) /\ x.val = <<>>

\* The keys d holds with the empty dict, and the others in their order.
EmptyDictKeys(d) == {item.key : item \in {i \in Range(d.val) : HoldsNothing(i.value)}}
OtherKeys(d) == SelectSeq(DictKeys(d), LAMBDA k : k \notin EmptyDictKeys(d))

\* C14 as stated: union_keys gives the keys of the first dict in order, then
\* those of the second, first occurrences only, without any key that either
\* dict holds with an empty dict.
C14_UnionKeysNoEmptyMapKey ==
    output.op = "union_keys" =>
        LET both == DictKeys(Arg1) \o DictKeys(Arg2)
            kept == SelectSeq(both, LAMBDA k :
                        k \notin EmptyDictKeys(Arg1) \cup EmptyDictKeys(Arg2))
        IN  output.value = KeepFirst(kept, Len(kept))

\* C14 as amended: union_keys gives the keys the first dict holds with a
\* value other than the empty dict, in order, then those the second dict
\* holds with such a value, first occurrences only; a key held with an empty
\* dict in one input and with another value in the other is in the result.
C14_UnionKeysPerInput ==
    output.op = "union_keys" =>
        LET kept == OtherKeys(Arg1) \o OtherKeys(Arg2)
        IN  output.value = KeepFirst(kept, Len(kept))

\* union_keys({"a": {}, "b": "d"}, {"b": "b", "a": "b"}) gave ["b", "a"].
C14_Witness ==
    /\ output.op = "union_keys"
    /\ inputs = <<Mapping(<<Item(KeyA, Mapping(<<>>)), Item(KeyB, PyScalar("'d'"))>>),
                  Mapping(<<Item(KeyB, PyScalar("'b'")), Item(KeyA, PyScalar("'b'"))>>)>>
    /\ output.value = <<KeyB, KeyA>>

\* No dict inside v, v included, holds a key with an empty dict.
RECURSIVE NoEmptyDictInside(_)
NoEmptyDictInside(v) ==
    IF IsDict(v) \/ IsList(v)
    THEN \A n \in 1..Len(v.val) :
            LET x == IF IsDict(v) THEN v.val[n].value ELSE v.val[n]
            IN  (IsDict(v) => ~HoldsNothing(x)) /\ NoEmptyDictInside(x)
    ELSE TRUE

\* C19 as stated: the dict merge_values returns for two dicts holds no key
\* with an empty dict, at any depth.
C19_NoEmptyMapAnywhere ==
    (output.op = "merge_values" /\ IsDict(Arg1) /\ IsDict(Arg2)) =>
        NoEmptyDictInside(output.value)

\* No key of out has an empty dict, nor has any key of a dict inside out
\* that was merged from a dict of f and a dict of i.
RECURSIVE PrunedWhereMerged(_, _, _)
PrunedWhereMerged(out, f, i) ==
    \A n \in 1..Len(out.val) :
        LET key == out.val[n].key
            x == DictGet(f, key, _EMPTY)
            y == DictGet(i, key, _EMPTY)
        IN  /\ ~HoldsNothing(out.val[n].value)
            /\ (IsDict(x) /\ IsDict(y)) =>
                  PrunedWhereMerged(out.val[n].value, x, y)

\* C19 as amended: the dict merge_values returns for two dicts holds no key
\* with an empty dict at its top level, nor inside any dict that both
\* inputs hold as a dict at the same place; an empty dict nested in a value
\* that only one input holds as a dict is copied over and kept.
C19_NoEmptyMapWhereMerged ==
    (output.op = "merge_values" /\ IsDict(Arg1) /\ IsDict(Arg2)) =>
        PrunedWhereMerged(output.value, Arg1, Arg2)

\* merge_values({"a": "b"}, {"a": {}, "b": "d"}) gave {"b": "d"}: the key
\* "a", whose merge is the empty dict, was pruned.
C19_Witness ==
    /\ output.op = "merge_values"
    /\ inputs = <<Mapping(<<Item(KeyA, PyScalar("'b'"))>>),
                  Mapping(<<Item(KeyA, Mapping(<<>>)), Item(KeyB, PyScalar("'d'"))>>)>>
    /\ output.value = Mapping(<<Item(KeyB, PyScalar("'d'"))>>)

\* ------------------------------- properties of flatten and normalize

\* a == b on Python values: dicts are equal when they hold equal values at
\* the same keys, in whatever order.
RECURSIVE PyEq(_, _)
PyEq(a, b) ==
    /\ a.type = b.type
    /\ IF IsDict(a)
       THEN /\ UsedKeys(a.val) = UsedKeys(b.val)
            /\ \A k \in UsedKeys(a.val) :
                   PyEq(DictGet(a, k, _EMPTY), DictGet(b, k, _EMPTY))
       ELSE IF IsList(a)
       THEN /\ Len(a.val) = Len(b.val)
            /\ \A n \in 1..Len(a.val) : PyEq(a.val[n], b.val[n])
       ELSE a.literal = b.literal

\* The value handed to the function under call.
Arg == inputs[1]

RoundTrip == "flatten_dict(normalize_dict(flatten_dict"

\* C15 as stated: flatten_dict(normalize_dict(flatten_dict(m))) equals
\* flatten_dict(m) for every dict m.
C15_RoundTrip ==
    output.op = RoundTrip => PyEq(output.value, flatten_dict(Arg))

\* No key of a dict inside v, v included, has a ".".
RECURSIVE NoDottedKey(_)
NoDottedKey(v) ==
    IF IsDict(v)
    THEN \A n \in 1..Len(v.val) :
            /\ \A m \in 1..Len(v.val[n].key) : v.val[n].key[m] # Dot
            /\ NoDottedKey(v.val[n].value)
    ELSE IF IsList(v) THEN \A n \in 1..Len(v.val) : NoDottedKey(v.val[n])
    ELSE TRUE

\* No key of flat is another key of flat followed by "." and more letters.
PrefixFree(flat) ==
    \A x, y \in UsedKeys(flat.val) :
        ~(Len(x) < Len(y) /\ SubSeq(y, 1, Len(x) + 1) = x \o <<Dot>>)

\* No element of a list held by flat is a dict with a dotted key inside.
PlainLists(flat) ==
    \A n \in 1..Len(flat.val) :
        LET val == flat.val[n].value
        IN  IsList(val) =>
                \A m \in 1..Len(val.val) :
                    IsDict(val.val[m]) => NoDottedKey(val.val[m])

\* C15 as amended: flatten_dict(normalize_dict(flatten_dict(m))) equals
\* flatten_dict(m) for every dict m such that no key of flatten_dict(m)
\* extends another of its keys by "." and more, and no list it holds has
\* an element that is a dict with a dotted key.
C15_RoundTripPrefixFree ==
    (output.op = RoundTrip /\ PrefixFree(flatten_dict(Arg))
        /\ PlainLists(flatten_dict(Arg))) =>
        PyEq(output.value, flatten_dict(Arg))

\* {"a": {"b": "d"}, "b": 0} went round to {"a.b": "d", "b": 0}.
C15_Witness ==
    /\ output.op = RoundTrip
    /\ inputs = <<Mapping(<<Item(KeyA, Mapping(<<Item(KeyB, PyScalar("'d'"))>>)),
                            Item(KeyB, PyScalar("0"))>>)>>
    /\ output.value = Mapping(<<Item(KeyAB, PyScalar("'d'")),
                                Item(KeyB, PyScalar("0"))>>)

\* The keys, one after another, are in ascending order.
Ascending(keys) == \A n \in 1..(Len(keys) - 1) : StrLess(keys[n], keys[n + 1])

\* The keys of every dict held by the dict v, at any depth, are ascending.
RECURSIVE SortedInside(_)
SortedInside(v) ==
    \A n \in 1..Len(v.val) :
        LET x == v.val[n].value
        IN  IsDict(x) => Ascending(DictKeys(x)) /\ SortedInside(x)

\* C16 as stated: for a flat event, the document of format_json has those
\* of @timestamp, log.level and message that the event holds first, in
\* that order, then every other top-level key in ascending order, and the
\* keys of every nested dict in ascending order.
C16_KeysSorted ==
    (output.op = "format_json" /\ \A n \in 1..Len(Arg.val) : ~IsDict(Arg.val[n].value)) =>
        LET first == SelectSeq(first_keys, LAMBDA x : x \in UsedKeys(Arg.val))
            keys == DictKeys(output.object)
        IN  /\ Len(keys) >= Len(first)
            /\ SubSeq(keys, 1, Len(first)) = first
            /\ Ascending(SubSeq(keys, Len(first) + 1, Len(keys)))
            /\ SortedInside(output.object)

\* C20 as stated: no key of a dict anywhere in the result of normalize_dict
\* has a ".", the dicts inside lists, and inside lists of lists, included.
C20_NoDottedKey ==
    output.op = "normalize_dict" => NoDottedKey(output.value)


\* C21 as stated: no key of the dict normalize_dict returns holds an empty
\* dict.
C21_NoEmptyMapValue ==
    (output.op = "normalize_dict" /\ IsDict(output.value)) =>
        \A n \in 1..Len(output.value.val) :
            ~HoldsNothing(output.value.val[n].value)
\* ------------------------------ properties of get_event, format_message

\* record.extra of the record under call, {} when it has none.
ExtraOf(record) ==
    LET attribute == DictGet(record, <<"extra">>, None)
    IN  IF Truthy(attribute) THEN attribute ELSE Mapping(<<>>)

\* The event of the record's own attributes, before the context and the
\* extra fields are put in.
RecordFields(record) ==
    flatten_dict(RecordLoop(Mapping(<<Item(Timestamp, PyScalar("'t'")),
                                      Item(Message, PyScalar("'m'"))>>),
                            record.val, Len(record.val)))

\* The key x is the key y, or one of them is the other followed by "." and
\* more letters.
Overlap(x, y) ==
    \/ x = y
    \/ Len(x) < Len(y) /\ SubSeq(y, 1, Len(x) + 1) = x \o <<Dot>>
    \/ Len(y) < Len(x) /\ SubSeq(x, 1, Len(y) + 1) = y \o <<Dot>>

\* C17 as stated: when a record with extra fields is turned into an event
\* in a context with fields, the event holds, at every flattened key of
\* the extra fields, the value the extra fields give it; and at every
\* flattened key of the context that the record's own fields have too,
\* and that no extra field is at, above or below, the value of the context.
C17_ExtraThenContextWins ==
    (output.op = "get_event" /\ ExtraOf(inputs[1]).val # <<>>
        /\ inputs[2].val # <<>>) =>
        LET extra == flatten_dict(ExtraOf(inputs[1]))
            context == flatten_dict(inputs[2])
            fields == RecordFields(inputs[1])
        IN  /\ \A n \in 1..Len(extra.val) :
                   DictGet(output.value, extra.val[n].key, _EMPTY)
                       = extra.val[n].value
            /\ \A n \in 1..Len(context.val) :
                   (/\ context.val[n].key \in UsedKeys(fields.val)
                    /\ \A x \in UsedKeys(extra.val) :
                           ~Overlap(x, context.val[n].key)) =>
                       DictGet(output.value, context.val[n].key, _EMPTY)
                           = context.val[n].value

\* C18 as stated: format_message of every formatter returns a string for
\* every record, context and extra fields, a dict under "message" among
\* them; it never raises.
C18_FormatMessageReturns ==
    output.op = "format_message" => output.value.raised = "none"
\* --------------------------- properties of key_to_dict, unflatten_dict

\* {arr[n]: {arr[n + 1]: ... {arr[-1]: value}}}
RECURSIVE Nested(_, _, _)
Nested(arr, n, value) ==
    IF n > Len(arr) THEN value
    ELSE Mapping(<<Item(arr[n], Nested(arr, n + 1, value))>>)

\* C22 as stated: key_to_dict(p, v) is {p: v} for a p without ".", and
\* else the dict of one key, the first segment of p, that holds
\* key_to_dict of the rest of p and v: the segments of p, none of them
\* with a ".", are its nested keys from left to right.
C22_KeyToDictNested ==
    output.op = "key_to_dict" =>
        output.value = Nested(Split(inputs[1], Len(inputs[1])), 1, inputs[2])

\* What d holds at the end of the path of keys arr[n], arr[n + 1], ...
RECURSIVE Lookup(_, _, _)
Lookup(d, arr, n) ==
    IF n > Len(arr) THEN d
    ELSE IF ~IsDict(d) THEN _EMPTY
    ELSE Lookup(DictGet(d, arr[n], _EMPTY), arr, n + 1)

\* C23 as stated: unflatten_dict returns, it does not raise; no top-level
\* key of the dict returned has a "."; and the dict holds the value of
\* every entry whose key is not at, above or below the key of another
\* entry at the end of the path of its segments, so "a.b" and "a.c" are
\* both under the one key "a".
C23_UnflattenMergesSegments ==
    output.op = "unflatten_dict" =>
        /\ output.value.raised = "none"
        /\ \A k \in UsedKeys(output.value.value.val) :
               \A n \in 1..Len(k) : k[n] # Dot
        /\ \A k \in UsedKeys(inputs[1].val) :
               (\A x \in UsedKeys(inputs[1].val) \ {k} : ~Overlap(x, k)) =>
                   Lookup(output.value.value, Split(k, Len(k)), 1)
                       = DictGet(inputs[1], k, _EMPTY)

====
